---- MODULE Spec2Model ----
(***************************************************************************)
(* WeatherWizard: the likelihood calculator of script.js, the page         *)
(* handlers around it (predict and insight buttons, progress bar colours)  *)
(* and the dashboard component MapComponent.jsx.                           *)
(*                                                                         *)
(* JavaScript numbers are modelled as exact rationals n/d (d > 0, lowest   *)
(* terms) plus NaN and undefined.  The decimal literals the page handles   *)
(* have one fractional digit, so an input is a count of tenths.  A double  *)
(* differs from the exact rational by far less than the distance between   *)
(* two rationals that can arise here, so Math.round agrees with exact      *)
(* rounding except when the exact value is precisely k + 1/2: there the    *)
(* double may lie a few ulps under the tie and Math.round returns k.  The  *)
(* inputs at which IEEE-754 evaluation of the source expression does so    *)
(* are tabulated (HotBelowHalf, ColdBelowHalf, UncomfortableBelowHalf) and *)
(* carried in the field lo of the number.  The tables are complete for     *)
(* temperatures of -20.0 to 50.0 and humidities of -20.0 to 120.0; the     *)
(* wind and precipitation ramps have no tie on inputs in tenths.           *)
(***************************************************************************)
EXTENDS Integers, Sequences, FiniteSets, TLC

VARIABLES
    params,             \* calculateLikelihoods: the argument of the call under test
    scores,             \* calculateLikelihoods: the object it returned
    enginePc,           \* "ready" before the call, "done" after it
    otherParams,        \* calculateLikelihoods: the argument of a second call
    otherScores,        \* calculateLikelihoods: the object the second call returned
    latitudeInput,      \* #latitude .value
    longitudeInput,     \* #longitude .value
    endDateInput,       \* #end-date .value
    discomfortThresholdInput,   \* #discomfort-threshold .value
    discomfortThresholdValue,   \* #threshold-value .textContent
    lastLikelihoods,    \* let lastLikelihoods = {}
    lastData,           \* let lastData = null
    chartInstance,      \* let chartInstance = null
    predictBtnDisabled, \* predictBtn.disabled
    loadingHidden,      \* #loading has class hidden
    resultsHidden,      \* #results has class hidden
    insightsBtnHidden,  \* #gemini-insights-btn has class hidden
    resultsContent,     \* the five percentages rendered by showResults
    messageText,        \* #message-text .textContent
    messageHidden,      \* #message-box has class hidden
    predictRuns,        \* predict handler runs suspended at an await
    geminiText,         \* #gemini-text .textContent
    geminiInsightsDivHidden,    \* #gemini-insights-div has class hidden
    insightRuns,        \* insight handler runs suspended at an await
    barProbability,     \* getProgressBarColorClass: the argument of the call under test
    progressColor,      \* getProgressBarColorClass: the class it returned, "" before
    inputLat,           \* MapComponent: useState(DEFAULT_LAT), the latitude field
    inputLon,           \* MapComponent: useState(DEFAULT_LON), the longitude field
    latLon,             \* MapComponent: the states lat and lon, as a pair
    date,               \* MapComponent: useState(INITIAL_DATE)
    discomfortThresholdState,   \* MapComponent: useState(50), discomfortThreshold
    discomfortOption,   \* MapComponent: useState('general')
    results,            \* MapComponent: useState(null)
    loading,            \* MapComponent: useState(false)
    message,            \* MapComponent: useState(''), '' or [text, type]
    fetchRuns,          \* MapComponent: fetchWeatherData calls suspended at an await
    resultsByLatest,    \* history: results was last set by the most recently started call
    engineLog,          \* history: <<argument, value stored in lastLikelihoods>>
    repeated,           \* history: some argument reached the calculator twice
    lastScoring,        \* history: threshold and argument of the last stored scoring
    lastOutcome         \* history: how the last finished predict run went

engineVars == <<params, scores, enginePc, otherParams, otherScores>>
inputVars == <<latitudeInput, longitudeInput, endDateInput,
               discomfortThresholdInput, discomfortThresholdValue>>
resultVars == <<lastLikelihoods, lastData, chartInstance, resultsHidden,
                insightsBtnHidden, resultsContent>>
loadingVars == <<predictBtnDisabled, loadingHidden>>
messageVars == <<messageText, messageHidden>>
insightVars == <<geminiText, geminiInsightsDivHidden, insightRuns>>
bandVars == <<barProbability, progressColor>>
componentVars == <<inputLat, inputLon, latLon, date, discomfortThresholdState,
                   discomfortOption, results, loading, message, fetchRuns,
                   resultsByLatest>>
historyVars == <<engineLog, repeated, lastScoring, lastOutcome>>

vars == <<engineVars, inputVars, resultVars, loadingVars, messageVars,
          historyVars, predictRuns, insightVars, bandVars, componentVars>>

----------------------------------------------------------------------------
(* JavaScript values *)

RECURSIVE GCD(_, _)
GCD(a, b) == IF b = 0 THEN a ELSE GCD(b, a % b)

Abs(x) == IF x < 0 THEN -x ELSE x

\* the rational n/d in lowest terms with a positive denominator
Num(n, d) ==
    LET s == IF d < 0 THEN -1 ELSE 1
        g == GCD(Abs(n), Abs(d))
    IN  [k |-> "num", n |-> (s * n) \div g, d |-> (s * d) \div g, lo |-> FALSE]

Whole(n) == [k |-> "num", n |-> n, d |-> 1, lo |-> FALSE]
NaN == [k |-> "nan", n |-> 0, d |-> 1, lo |-> FALSE]
undefined == [k |-> "undef", n |-> 0, d |-> 1, lo |-> FALSE]

\* the decimal literal with one fractional digit, t/10
Tenths(t) == Num(t, 10)

\* ToNumber: undefined converts to NaN
ToNumber(v) == IF v.k = "num" THEN v ELSE NaN

isNaN(v) == ToNumber(v).k = "nan"

\* a / b, for a finite non-zero divisor b
Div(a, b) ==
    LET x == ToNumber(a)
        y == ToNumber(b)
    IN  IF x.k = "nan" \/ y.k = "nan" THEN NaN
        ELSE IF x.n = 0 THEN Whole(0)
        ELSE LET g1 == GCD(Abs(x.n), Abs(y.n))
                 g2 == GCD(x.d, y.d)
                 s == IF y.n < 0 THEN -1 ELSE 1
             IN  [k |-> "num", n |-> s * (x.n \div g1) * (y.d \div g2),
                  d |-> s * (x.d \div g2) * (y.n \div g1), lo |-> FALSE]

\* a * b
Mul(a, b) ==
    LET x == ToNumber(a)
        y == ToNumber(b)
    IN  IF x.k = "nan" \/ y.k = "nan" THEN NaN
        ELSE IF x.n = 0 \/ y.n = 0 THEN Whole(0)
        ELSE LET g1 == GCD(Abs(x.n), y.d)
                 g2 == GCD(Abs(y.n), x.d)
             IN  [k |-> "num", n |-> (x.n \div g1) * (y.n \div g2),
                  d |-> (x.d \div g2) * (y.d \div g1), lo |-> FALSE]

\* a - b
Sub(a, b) ==
    LET x == ToNumber(a)
        y == ToNumber(b)
    IN  IF x.k = "nan" \/ y.k = "nan" THEN NaN
        ELSE LET g == GCD(x.d, y.d)
                 l == (x.d \div g) * y.d
             IN  Num(x.n * (l \div x.d) - y.n * (l \div y.d), l)

\* a < b on finite numbers
Less(a, b) == a.n * b.d < b.n * a.d

\* the double computed for the exact value x lies just under x
Below(x, under) == IF x.k = "num" THEN [x EXCEPT !.lo = under] ELSE x

\* Math.min(a, b): NaN if either argument is NaN
MathMin(a, b) ==
    LET x == ToNumber(a)
        y == ToNumber(b)
    IN  IF x.k = "nan" \/ y.k = "nan" THEN NaN
        ELSE IF Less(y, x) THEN y ELSE x

\* Math.max(a, b): NaN if either argument is NaN
MathMax(a, b) ==
    LET x == ToNumber(a)
        y == ToNumber(b)
    IN  IF x.k = "nan" \/ y.k = "nan" THEN NaN
        ELSE IF Less(x, y) THEN y ELSE x

\* Math.round(x): the nearest integer, a tie going up; NaN stays NaN
MathRound(a) ==
    LET x == ToNumber(a)
    IN  IF x.k = "nan" THEN NaN
        ELSE LET up == (2 * x.n + x.d) \div (2 * x.d)
                 tie == (2 * x.n + x.d) % (2 * x.d) = 0
             IN  IF tie /\ x.lo THEN Whole(up - 1) ELSE Whole(up)

----------------------------------------------------------------------------
(* Likelihood calculator *)

\* tempMax (tenths, -200..500) at which the double (tempMax / 40) * 100 lies
\* under an exact tie k + 1/2
HotBelowHalf ==
    {-118, -114, -110, -98, -42, -22, 14, 58, 66, 174, 182, 214, 222, 230,
     314, 358, 398}

\* tempMin (tenths, -200..500) at which the double ((10 - tempMin) / 20) * 100
\* lies under an exact tie k + 1/2
ColdBelowHalf ==
    {-99, -79, -57, -15, -11, -7, 9, 13, 67, 69, 79, 83, 89, 93, 99, 103, 109,
     113, 119, 123, 129, 133, 143, 149, 155, 159, 161, 163, 171, 173, 181,
     191, 201, 211, 213, 221, 243, 251, 271, 293, 301, 303, 311, 327, 345,
     347, 351, 361, 367, 377, 411, 417, 427, 461, 467, 477}

\* <<tempMax, avgHumidity>> (tenths, -200..500 and -200..1200) at which the
\* double (tempHumidityUncomfortable / 35) * 100 lies under an exact tie
UncomfortableBelowHalf ==
    {<<-155, 50>>, <<-130, 800>>, <<-55, -25>>, <<-55, 675>>, <<130, 0>>,
     <<195, 1100>>, <<245, -50>>, <<265, -125>>, <<270, 0>>, <<340, 0>>,
     <<345, 775>>, <<395, -180>>, <<410, 0>>}

\* the tenths of a finite input (0 for NaN and undefined, where no tie arises)
TenthsOf(v) == IF v.k = "num" THEN (v.n * 10) \div v.d ELSE 0

MIN_PERCENT == 5

\* variant: the ramp saturates at 50 instead of 40
veryHot_saturatesAt50(tempMax) ==
    MathMax(Whole(MIN_PERCENT),
        MathRound(MathMin(Whole(100),
            Mul(Div(tempMax, Whole(50)), Whole(100)))))

\* variant: the floor Math.max(MIN_PERCENT, ...) is left out
veryHot_unfloored(tempMax) ==
    MathRound(MathMin(Whole(100),
        Below(Mul(Div(tempMax, Whole(40)), Whole(100)),
              TenthsOf(tempMax) \in HotBelowHalf)))

\* variant: the score never drops under the veryHot of the previous result
veryHot_remembersPeak(tempMax) ==
    LET fresh == MathMax(Whole(MIN_PERCENT),
                    MathRound(MathMin(Whole(100),
                        Below(Mul(Div(tempMax, Whole(40)), Whole(100)),
                              TenthsOf(tempMax) \in HotBelowHalf))))
    IN  IF lastLikelihoods.veryHot.k = "num"
        THEN MathMax(lastLikelihoods.veryHot, fresh)
        ELSE fresh

veryHot(tempMax) ==
    MathMax(Whole(MIN_PERCENT),
        MathRound(MathMin(Whole(100),
            Below(Mul(Div(tempMax, Whole(40)), Whole(100)),
                  TenthsOf(tempMax) \in HotBelowHalf))))

\* variant: the difference is taken the other way round, tempMin - 10
veryCold_signFlipped(tempMin) ==
    MathMax(Whole(MIN_PERCENT),
        MathRound(MathMin(Whole(100),
            Mul(Div(Sub(tempMin, Whole(10)), Whole(20)), Whole(100)))))

\* variant: the raw value is truncated (Math.floor) instead of rounded
veryCold_truncated(tempMin) ==
    LET raw == MathMin(Whole(100),
                   Mul(Div(Sub(Whole(10), tempMin), Whole(20)), Whole(100)))
    IN  MathMax(Whole(MIN_PERCENT),
            IF raw.k = "num" THEN Whole(raw.n \div raw.d) ELSE NaN)

veryCold(tempMin) ==
    MathMax(Whole(MIN_PERCENT),
        MathRound(MathMin(Whole(100),
            Below(Mul(Div(Sub(Whole(10), tempMin), Whole(20)), Whole(100)),
                  TenthsOf(tempMin) \in ColdBelowHalf))))

\* variant: the cap Math.min(100, ...) is left out
veryWindy_uncapped(windMax) ==
    MathMax(Whole(MIN_PERCENT),
        MathRound(Mul(Div(windMax, Whole(30)), Whole(100))))

veryWindy(windMax) ==
    MathMax(Whole(MIN_PERCENT),
        MathRound(MathMin(Whole(100), Mul(Div(windMax, Whole(30)), Whole(100)))))

\* variant: the ramp saturates at 100 mm instead of 50 mm
veryWet_saturatesAt100(precipitationSum) ==
    MathMax(Whole(MIN_PERCENT),
        MathRound(MathMin(Whole(100),
            Mul(Div(precipitationSum, Whole(100)), Whole(100)))))

veryWet(precipitationSum) ==
    MathMax(Whole(MIN_PERCENT),
        MathRound(MathMin(Whole(100),
            Mul(Div(precipitationSum, Whole(50)), Whole(100)))))

\* variant: the distance is taken from tempMax down to 14.5, 14.5 - tempMax
tempHumidityUncomfortable_distanceFlipped(tempMax, avgHumidity) ==
    Sub(tempMax,
        Mul(Mul(Num(55, 100), Sub(Whole(1), Div(avgHumidity, Whole(100)))),
            Sub(Num(145, 10), tempMax)))

\* variant: the humidity is taken as a fraction, 1 - avgHumidity
tempHumidityUncomfortable_fraction(tempMax, avgHumidity) ==
    Sub(tempMax,
        Mul(Mul(Num(55, 100), Sub(Whole(1), ToNumber(avgHumidity))),
            Sub(tempMax, Num(145, 10))))

tempHumidityUncomfortable(tempMax, avgHumidity) ==
    Sub(tempMax,
        Mul(Mul(Num(55, 100), Sub(Whole(1), Div(avgHumidity, Whole(100)))),
            Sub(tempMax, Num(145, 10))))

\* variant: the ramp saturates at the slider's threshold instead of at 35
veryUncomfortable_againstThreshold(tempMax, avgHumidity) ==
    MathMax(Whole(MIN_PERCENT),
        MathRound(MathMin(Whole(100),
            Mul(Div(tempHumidityUncomfortable(tempMax, avgHumidity),
                    IF discomfortThresholdInput = "30" THEN Whole(30)
                    ELSE Whole(35)), Whole(100)))))

veryUncomfortable(tempMax, avgHumidity) ==
    MathMax(Whole(MIN_PERCENT),
        MathRound(MathMin(Whole(100),
            Below(Mul(Div(tempHumidityUncomfortable(tempMax, avgHumidity),
                          Whole(35)), Whole(100)),
                  <<TenthsOf(tempMax), TenthsOf(avgHumidity)>>
                      \in UncomfortableBelowHalf))))

calculateLikelihoods(p) ==
    [veryHot |-> veryHot(p.tempMax),
     veryCold |-> veryCold(p.tempMin),
     veryWindy |-> veryWindy(p.windMax),
     veryWet |-> veryWet(p.precipitationSum),
     veryUncomfortable |-> veryUncomfortable(p.tempMax, p.avgHumidity)]

\* an object with no own keys, {}
EmptyObject == [veryHot |-> undefined, veryCold |-> undefined,
                veryWindy |-> undefined, veryWet |-> undefined,
                veryUncomfortable |-> undefined]

----------------------------------------------------------------------------
(* Progress bar colours *)

\* a >= b: false when either side is NaN
GreaterEq(a, b) ==
    LET x == ToNumber(a)
        y == ToNumber(b)
    IN  x.k = "num" /\ y.k = "num" /\ ~Less(x, y)

\* variant: the break points are compared with > instead of >=
getProgressBarColorClass_exclusive(probability) ==
    LET x == ToNumber(probability)
        Over(n) == x.k = "num" /\ Less(Whole(n), x)
    IN  IF Over(75) THEN "bg-gradient-to-r from-red-500 to-pink-500"
        ELSE IF Over(50) THEN "bg-gradient-to-r from-yellow-400 to-orange-400"
        ELSE IF Over(25) THEN "bg-gradient-to-r from-green-400 to-lime-400"
        ELSE "bg-gradient-to-r from-blue-400 to-sky-400"

getProgressBarColorClass(probability) ==
    IF GreaterEq(probability, Whole(75))
    THEN "bg-gradient-to-r from-red-500 to-pink-500"
    ELSE IF GreaterEq(probability, Whole(50))
    THEN "bg-gradient-to-r from-yellow-400 to-orange-400"
    ELSE IF GreaterEq(probability, Whole(25))
    THEN "bg-gradient-to-r from-green-400 to-lime-400"
    ELSE "bg-gradient-to-r from-blue-400 to-sky-400"

\* no call of getProgressBarColorClass under test
BandIdle ==
    /\ barProbability = Whole(0)
    /\ progressColor = ""

----------------------------------------------------------------------------
(* MapComponent.jsx *)

DEFAULT_LAT == "51.5074"
DEFAULT_LON == "0.1278"
\* new Date().toISOString().split('T')[0] on the day the module is loaded
INITIAL_DATE == "2025-10-05"

\* what the fields and selectors can be changed to
InputLatStrings == {"", "95"}
InputLonStrings == {"", "200"}
DateStrings == {"2025-10-06"}
OptionValues == {"general", "hot"}
ThresholdValues == {45, 50}

\* Number(val) on the strings above; Number('') is 0
Number(val) ==
    CASE val = "" -> Whole(0)
      [] val = "51.5074" -> Num(515074, 10000)
      [] val = "0.1278" -> Num(1278, 10000)
      [] val = "95" -> Whole(95)
      [] val = "200" -> Whole(200)
      [] OTHER -> NaN

\* x || 0 on a number or a missing value
OrZero(x) == IF x.k = "num" /\ x.n # 0 THEN x ELSE Whole(0)

\* a > b: false when either side is NaN
Greater(a, b) ==
    LET x == ToNumber(a)
        y == ToNumber(b)
    IN  x.k = "num" /\ y.k = "num" /\ Less(y, x)

\* a < b: false when either side is NaN
LessThan(a, b) ==
    LET x == ToNumber(a)
        y == ToNumber(b)
    IN  x.k = "num" /\ y.k = "num" /\ Less(x, y)

NoMetrics ==
    [temperature |-> Whole(0), relativeHumidity |-> Whole(0),
     windSpeed |-> Whole(0), precipitation |-> Whole(0)]

\* results === null
NullResults ==
    [isNull |-> TRUE, likelihood |-> Whole(0), status |-> "", metrics |-> NoMetrics]

\* message === ''
NoMessage == [text |-> "", type |-> ""]

\* the component's calculateLikelihoods(metrics, discomfortOption,
\* discomfortThreshold)
MapComponent_calculateLikelihoods(metrics, option, threshold) ==
    LET temperature == metrics.temperature
        byTemperature == IF Greater(temperature, Whole(28)) THEN 40
                         ELSE IF LessThan(temperature, Whole(10)) THEN 30
                         ELSE 0
        byHumidity == IF /\ Greater(metrics.relativeHumidity, Whole(70))
                         /\ Greater(temperature, Whole(25))
                      THEN 30 ELSE 0
        byWind == IF Greater(metrics.windSpeed, Whole(15)) THEN 10 ELSE 0
        byPrecipitation == IF Greater(metrics.precipitation, Whole(1))
                           THEN 20 ELSE 0
        summed == Whole(byTemperature + byHumidity + byWind + byPrecipitation)
        hotBias == IF option = "hot" /\ Greater(temperature, Whole(25))
                   THEN Mul(summed, Num(12, 10)) ELSE summed
        coldBias == IF option = "cold" /\ LessThan(temperature, Whole(15))
                    THEN Mul(hotBias, Num(12, 10)) ELSE hotBias
        likelihood == MathMin(Whole(100), MathMax(Whole(0), MathRound(coldBias)))
        status == IF GreaterEq(likelihood, Whole(threshold))
                  THEN "High Discomfort Risk" ELSE "Acceptable Comfort"
    IN  [isNull |-> FALSE, likelihood |-> likelihood, status |-> status,
         metrics |-> metrics]

\* how fetch(OPEN_METEO_URL...) settles
OpenMeteoOutcomes == {"reject", "notok", "ok"}

\* the first entries of the daily series: a hot dry day with no precipitation
\* value, and a cold, windy, wet day
DailySamples ==
    { [temperature_2m_max |-> Tenths(300), relative_humidity_2m_max |-> Whole(60),
       wind_speed_10m_max |-> Tenths(50), precipitation_sum |-> undefined],
      [temperature_2m_max |-> Tenths(50), relative_humidity_2m_max |-> Whole(90),
       wind_speed_10m_max |-> Tenths(200), precipitation_sum |-> Tenths(30)] }

NoDaily ==
    [temperature_2m_max |-> undefined, relative_humidity_2m_max |-> undefined,
     wind_speed_10m_max |-> undefined, precipitation_sum |-> undefined]

\* what res.json() settles with: a rejection (malformed body), an object
\* without daily, one whose daily.time is empty, or one with a day of data
OpenMeteoBodies ==
    { [kind |-> "malformed", daily |-> NoDaily],
      [kind |-> "noDaily", daily |-> NoDaily],
      [kind |-> "emptyTime", daily |-> NoDaily] }
    \cup { [kind |-> "daily", daily |-> d] : d \in DailySamples }

\* a limit on the fetchWeatherData calls suspended at one time
MaxFetchRuns == 2

\* the component once mounted: the effect has called fetchWeatherData, which
\* is suspended on its fetch
ComponentMounted ==
    /\ inputLat = DEFAULT_LAT
    /\ inputLon = DEFAULT_LON
    /\ latLon = <<Number(DEFAULT_LAT), Number(DEFAULT_LON)>>
    /\ date = INITIAL_DATE
    /\ discomfortThresholdState = 50
    /\ discomfortOption = "general"
    /\ results = NullResults
    /\ loading = TRUE
    /\ message = [text |-> "Fetching Open-Meteo metrics (Temp, Wind, Humidity)...",
                  type |-> "info"]
    /\ fetchRuns = <<[pc |-> "fetch", inputLat |-> DEFAULT_LAT,
                      inputLon |-> DEFAULT_LON, date |-> INITIAL_DATE,
                      discomfortOption |-> "general",
                      discomfortThreshold |-> 50, latest |-> TRUE]>>
    /\ resultsByLatest = TRUE

pageVars == <<inputVars, resultVars, loadingVars, messageVars, historyVars,
              predictRuns, insightVars>>

\* fetchWeatherData as rendered with the given inputs, up to its await; the
\* field latest of a call is history, telling whether any call started after it
fetchWeatherData(iLat, iLon, d, option, threshold) ==
    /\ Len(fetchRuns) < MaxFetchRuns
    /\ loading' = TRUE
    /\ results' = NullResults
    /\ latLon' = <<Number(iLat), Number(iLon)>>
    /\ message' = [text |-> "Fetching Open-Meteo metrics (Temp, Wind, Humidity)...",
                   type |-> "info"]
    /\ fetchRuns' = Append([i \in 1..Len(fetchRuns) |->
                                [fetchRuns[i] EXCEPT !.latest = FALSE]],
            [pc |-> "fetch", inputLat |-> iLat, inputLon |-> iLon, date |-> d,
             discomfortOption |-> option, discomfortThreshold |-> threshold,
             latest |-> TRUE])
    /\ resultsByLatest' = TRUE

\* the action button, disabled while loading or with an empty coordinate
ActionButton ==
    /\ ~(loading \/ inputLat = "" \/ inputLon = "")
    /\ fetchWeatherData(inputLat, inputLon, date, discomfortOption,
                        discomfortThresholdState)
    /\ UNCHANGED <<inputLat, inputLon, date, discomfortThresholdState,
                   discomfortOption>>
    /\ UNCHANGED <<engineVars, pageVars, bandVars>>

\* the latitude field; a change of inputLat re-creates fetchWeatherData and
\* the effect calls it
handleLatChange(val) ==
    /\ val # inputLat
    /\ IF val = "" \/ (/\ ~isNaN(Number(val))
                       /\ GreaterEq(Number(val), Whole(-90))
                       /\ GreaterEq(Whole(90), Number(val)))
       THEN /\ inputLat' = val
            /\ fetchWeatherData(val, inputLon, date, discomfortOption,
                                discomfortThresholdState)
       ELSE UNCHANGED <<inputLat, latLon, results, loading, message, fetchRuns,
                        resultsByLatest>>
    /\ UNCHANGED <<inputLon, date, discomfortThresholdState, discomfortOption>>
    /\ UNCHANGED <<engineVars, pageVars, bandVars>>

handleLonChange(val) ==
    /\ val # inputLon
    /\ IF val = "" \/ (/\ ~isNaN(Number(val))
                       /\ GreaterEq(Number(val), Whole(-180))
                       /\ GreaterEq(Whole(180), Number(val)))
       THEN /\ inputLon' = val
            /\ fetchWeatherData(inputLat, val, date, discomfortOption,
                                discomfortThresholdState)
       ELSE UNCHANGED <<inputLon, latLon, results, loading, message, fetchRuns,
                        resultsByLatest>>
    /\ UNCHANGED <<inputLat, date, discomfortThresholdState, discomfortOption>>
    /\ UNCHANGED <<engineVars, pageVars, bandVars>>

\* the date field
setDate(v) ==
    /\ v # date
    /\ date' = v
    /\ fetchWeatherData(inputLat, inputLon, v, discomfortOption,
                        discomfortThresholdState)
    /\ UNCHANGED <<inputLat, inputLon, discomfortThresholdState, discomfortOption>>
    /\ UNCHANGED <<engineVars, pageVars, bandVars>>

\* the threshold slider
setDiscomfortThreshold(v) ==
    /\ v # discomfortThresholdState
    /\ discomfortThresholdState' = v
    /\ fetchWeatherData(inputLat, inputLon, date, discomfortOption, v)
    /\ UNCHANGED <<inputLat, inputLon, date, discomfortOption>>
    /\ UNCHANGED <<engineVars, pageVars, bandVars>>

\* the option selector
setDiscomfortOption(v) ==
    /\ v # discomfortOption
    /\ discomfortOption' = v
    /\ fetchWeatherData(inputLat, inputLon, date, v, discomfortThresholdState)
    /\ UNCHANGED <<inputLat, inputLon, date, discomfortThresholdState>>
    /\ UNCHANGED <<engineVars, pageVars, bandVars>>

\* the timer set by the component's showMessage clears the message
MessageCleared ==
    /\ message # NoMessage
    /\ message' = NoMessage
    /\ UNCHANGED <<inputLat, inputLon, latLon, date, discomfortThresholdState,
                   discomfortOption, results, loading, fetchRuns,
                   resultsByLatest>>
    /\ UNCHANGED <<engineVars, pageVars, bandVars>>

\* fetchWeatherData call i returns
FetchReturns(i) ==
    fetchRuns' = SubSeq(fetchRuns, 1, i - 1)
                   \o SubSeq(fetchRuns, i + 1, Len(fetchRuns))

\* the catch block of fetchWeatherData (the message's leading emoji left out)
OpenMeteoFailed(i) ==
    /\ message' = [text |-> "Open-Meteo failed. Cannot proceed without base metrics.",
                   type |-> "error"]
    /\ loading' = FALSE
    /\ FetchReturns(i)
    /\ UNCHANGED <<results, resultsByLatest>>

\* fetch(...) inside fetchOpenMeteoMetrics settles for call i
OpenMeteoFetchSettles(i, outcome) ==
    /\ i \in 1..Len(fetchRuns)
    /\ fetchRuns[i].pc = "fetch"
    /\ IF outcome = "ok"
       THEN \* await res.json()
            /\ fetchRuns' = [fetchRuns EXCEPT ![i].pc = "json"]
            /\ UNCHANGED <<results, loading, message, resultsByLatest>>
       ELSE \* fetch rejected, or !res.ok throws
            OpenMeteoFailed(i)
    /\ UNCHANGED <<inputLat, inputLon, latLon, date, discomfortThresholdState,
                   discomfortOption>>
    /\ UNCHANGED <<engineVars, pageVars, bandVars>>

\* res.json() settles for call i and the rest of fetchWeatherData runs
OpenMeteoJsonSettles(i, data) ==
    /\ i \in 1..Len(fetchRuns)
    /\ fetchRuns[i].pc = "json"
    /\ IF data.kind # "daily"
       THEN \* res.json() rejects, or !daily || daily.time.length === 0 throws
            OpenMeteoFailed(i)
       ELSE LET run == fetchRuns[i]
                metrics ==
                    [temperature |-> OrZero(data.daily.temperature_2m_max),
                     relativeHumidity |->
                         OrZero(data.daily.relative_humidity_2m_max),
                     windSpeed |-> OrZero(data.daily.wind_speed_10m_max),
                     precipitation |-> OrZero(data.daily.precipitation_sum)]
            IN  /\ message' = [text |-> "Using Open-Meteo data. (NASA data proxy is assumed to be running)",
                               type |-> "success"]
                /\ results' = MapComponent_calculateLikelihoods(metrics,
                                  run.discomfortOption, run.discomfortThreshold)
                /\ resultsByLatest' = run.latest
                /\ loading' = FALSE
                /\ FetchReturns(i)
    /\ UNCHANGED <<inputLat, inputLon, latLon, date, discomfortThresholdState,
                   discomfortOption>>
    /\ UNCHANGED <<engineVars, pageVars, bandVars>>

----------------------------------------------------------------------------
(* The page of script.js *)

\* values a user can leave in the form fields; the page starts with the
\* coordinates and the date empty and the slider at its default
LatitudeStrings == {"", "23.8103"}
LongitudeStrings == {"90.4125"}
EndDateStrings == {"", "2025-10-05"}
ThresholdStrings == {"30", "35"}
\* places a click on the map can hit, as toFixed(4) prints them
MapPoints == {<<"23.8103", "90.4125">>}

\* parseFloat on the strings above
parseFloat(s) ==
    CASE s = "" -> NaN
      [] s = "23.8103" -> Num(238103, 10000)
      [] s = "90.4125" -> Num(904125, 10000)
      [] s = "30" -> Whole(30)
      [] s = "35" -> Whole(35)
      [] s = "0" -> Whole(0)
      [] OTHER -> NaN

\* the catch block's substitute record
fallback ==
    [tempMax |-> Tenths(169), tempMin |-> Tenths(61), windMax |-> Tenths(107),
     precipitationSum |-> Tenths(245), avgHumidity |-> Tenths(621)]

\* realWeatherParams records /api/app may answer with
ResponseParams ==
    { [tempMax |-> Tenths(400), tempMin |-> Tenths(100), windMax |-> Tenths(300),
       precipitationSum |-> Tenths(500), avgHumidity |-> Tenths(1000)],
      [tempMax |-> Tenths(350), tempMin |-> undefined, windMax |-> undefined,
       precipitationSum |-> Tenths(0), avgHumidity |-> undefined] }

\* the records that come with the dates/temp/wind/precip series
SeriesParams == {p \in ResponseParams : p.tempMax = Tenths(400)}

NoParams ==
    [tempMax |-> undefined, tempMin |-> undefined, windMax |-> undefined,
     precipitationSum |-> undefined, avgHumidity |-> undefined]

\* what response.json() settles with: a rejection (no or malformed body),
\* null, an object without realWeatherParams, or an object carrying it, with
\* or without the dates/temp/wind/precip series
ResponseBodies ==
    { [kind |-> "malformed", hasParams |-> FALSE, realWeatherParams |-> NoParams,
       hasSeries |-> FALSE],
      [kind |-> "null", hasParams |-> FALSE, realWeatherParams |-> NoParams,
       hasSeries |-> FALSE],
      [kind |-> "object", hasParams |-> FALSE, realWeatherParams |-> NoParams,
       hasSeries |-> FALSE] }
    \cup { [kind |-> "object", hasParams |-> TRUE, realWeatherParams |-> p,
            hasSeries |-> FALSE] : p \in ResponseParams }
    \cup { [kind |-> "object", hasParams |-> TRUE, realWeatherParams |-> p,
            hasSeries |-> TRUE] : p \in SeriesParams }

\* calculateLikelihoods(p) for the records the predict handler passes to it,
\* each evaluated once
likelihoodsOf ==
    [p \in ResponseParams \cup {fallback} |-> calculateLikelihoods(p)]

\* drawing the chart: getContext("2d") yields nothing and the chart is skipped,
\* the chart is drawn, or new Chart(...) throws
ChartOutcomes == {"noContext", "drawn", "throws"}

\* how fetch("/api/app") settles: it rejects, or resolves with ok false or true
FetchOutcomes == {"reject", "notok", "ok"}

SeriesDates == <<"2025-10-04", "2025-10-05">>
SeriesTemp == <<Tenths(250), Tenths(260)>>
SeriesWind == <<Tenths(30), Tenths(42)>>
SeriesPrecip == <<Tenths(0), Tenths(12)>>

NullData == [isNull |-> TRUE, dates |-> <<>>, temp |-> <<>>, wind |-> <<>>,
             precip |-> <<>>]

\* const probability = data[c.key] || 0, for the five conditions
Probability(v) == IF v.k = "num" /\ v.n # 0 THEN v ELSE Whole(0)
Rendered(data) ==
    [veryHot |-> Probability(data.veryHot),
     veryCold |-> Probability(data.veryCold),
     veryWindy |-> Probability(data.veryWindy),
     veryWet |-> Probability(data.veryWet),
     veryUncomfortable |-> Probability(data.veryUncomfortable)]

\* a limit on the predict handler runs suspended at one time
MaxRuns == 2

PageInit ==
    /\ latitudeInput = ""
    /\ longitudeInput = ""
    /\ endDateInput = ""
    /\ discomfortThresholdInput = "30"
    /\ discomfortThresholdValue = "30"
    /\ lastLikelihoods = EmptyObject
    /\ lastData = NullData
    /\ chartInstance = "null"
    /\ predictBtnDisabled = FALSE
    /\ loadingHidden = TRUE
    /\ resultsHidden = TRUE
    /\ insightsBtnHidden = TRUE
    /\ resultsContent = EmptyObject
    /\ messageText = ""
    /\ messageHidden = TRUE
    /\ predictRuns = <<>>
    /\ geminiText = ""
    /\ geminiInsightsDivHidden = TRUE
    /\ insightRuns = <<>>
    /\ engineLog = {}
    /\ repeated = FALSE
    /\ lastScoring = [discomfortThreshold |-> undefined, latitude |-> undefined,
                       longitude |-> undefined, endDate |-> "",
                       params |-> NoParams, varied |-> FALSE]
    /\ lastOutcome = "none"

Init ==
    /\ PageInit
    /\ params = NoParams
    /\ scores = EmptyObject
    /\ otherParams = NoParams
    /\ otherScores = EmptyObject
    /\ enginePc = "off"
    /\ BandIdle
    /\ ComponentMounted

(* form input *)

EditLatitude(v) ==
    /\ latitudeInput' = v
    /\ UNCHANGED <<engineVars, longitudeInput, endDateInput,
                   discomfortThresholdInput, discomfortThresholdValue,
                   resultVars, loadingVars, messageVars, historyVars, predictRuns>>
    /\ UNCHANGED insightVars
    /\ UNCHANGED <<bandVars, componentVars>>

EditLongitude(v) ==
    /\ longitudeInput' = v
    /\ UNCHANGED <<engineVars, latitudeInput, endDateInput,
                   discomfortThresholdInput, discomfortThresholdValue,
                   resultVars, loadingVars, messageVars, historyVars, predictRuns>>
    /\ UNCHANGED insightVars
    /\ UNCHANGED <<bandVars, componentVars>>

EditEndDate(v) ==
    /\ endDateInput' = v
    /\ UNCHANGED <<engineVars, latitudeInput, longitudeInput,
                   discomfortThresholdInput, discomfortThresholdValue,
                   resultVars, loadingVars, messageVars, historyVars, predictRuns>>
    /\ UNCHANGED insightVars
    /\ UNCHANGED <<bandVars, componentVars>>

\* the slider's input listener copies the value into #threshold-value
EditThreshold(v) ==
    /\ discomfortThresholdInput' = v
    /\ discomfortThresholdValue' = v
    /\ UNCHANGED <<engineVars, latitudeInput, longitudeInput, endDateInput,
                   resultVars, loadingVars, messageVars, historyVars, predictRuns>>
    /\ UNCHANGED insightVars
    /\ UNCHANGED <<bandVars, componentVars>>

\* map.on("click"): both coordinate fields are overwritten
MapClick(pt) ==
    /\ latitudeInput' = pt[1]
    /\ longitudeInput' = pt[2]
    /\ UNCHANGED <<engineVars, endDateInput, discomfortThresholdInput,
                   discomfortThresholdValue, resultVars, loadingVars,
                   messageVars, historyVars, predictRuns>>
    /\ UNCHANGED insightVars
    /\ UNCHANGED <<bandVars, componentVars>>

\* the timer set by showMessage hides the message box
MessageTimeout ==
    /\ ~messageHidden
    /\ messageHidden' = TRUE
    /\ UNCHANGED <<engineVars, inputVars, resultVars, loadingVars, messageText,
                   historyVars, predictRuns>>
    /\ UNCHANGED insightVars
    /\ UNCHANGED <<bandVars, componentVars>>

(* predict button *)

\* parseFloat(discomfortThresholdInput.value || 0)
ThresholdOf(s) == parseFloat(IF s = "" THEN "0" ELSE s)

\* response.json() rejects, or !data || !data.realWeatherParams throws
BodyUnusable(data) ==
    \/ data.kind = "malformed"
    \/ data.kind = "null"
    \/ ~data.hasParams

\* history label of a settled body: what /api/app actually delivered
BodyKind(data) ==
    IF data.kind # "object" THEN data.kind
    ELSE IF data.hasParams THEN "ok" ELSE "noParams"

\* history: the records passed to calculateLikelihoods in this step, each with
\* the value that was stored in lastLikelihoods
Logged(calls) ==
    /\ engineLog' = engineLog \cup calls
    /\ repeated' = (repeated \/ \E c \in calls : \E e \in engineLog :
                                    e.params = c.params)

\* history: the record p whose scores the run leaves in lastLikelihoods, the
\* latitude, longitude, endDate and discomfortThreshold the run had read from
\* the form, and whether the scoring before this one had the same record
\* under another threshold
Noted(run, p) ==
    lastScoring' =
        [discomfortThreshold |-> run.body.discomfortThreshold,
         latitude |-> run.body.latitude,
         longitude |-> run.body.longitude,
         endDate |-> run.body.endDate,
         params |-> p,
         varied |-> /\ lastScoring.params = p
                    /\ lastScoring.discomfortThreshold.k = "num"
                    /\ lastScoring.discomfortThreshold
                          # run.body.discomfortThreshold]

\* showResults(lastLikelihoods), after lastLikelihoods was assigned
showResults ==
    /\ resultsContent' = Rendered(lastLikelihoods')
    /\ resultsHidden' = FALSE
    /\ insightsBtnHidden' = FALSE

\* variant: the catch block only reports the failure, no fallback is scored
Catch_messageOnly(run) ==
    /\ messageText' = "Failed to fetch data. Using fallback values."
    /\ messageHidden' = FALSE
    /\ UNCHANGED <<lastLikelihoods, resultsContent, resultsHidden,
                   insightsBtnHidden, lastData>>

\* the catch block
Catch(run) ==
    /\ messageText' = "Failed to fetch data. Using fallback values."
    /\ messageHidden' = FALSE
    /\ lastLikelihoods' = likelihoodsOf[fallback]
    /\ showResults
    /\ lastData' = [isNull |-> FALSE, dates |-> <<run.startDate>>,
                    temp |-> <<fallback.tempMax>>, wind |-> <<fallback.windMax>>,
                    precip |-> <<fallback.precipitationSum>>]

\* variant: hideLoading() hides the spinner but leaves the button disabled
Finally_leavesDisabled(i) ==
    /\ loadingHidden' = TRUE
    /\ UNCHANGED predictBtnDisabled
    /\ predictRuns' = SubSeq(predictRuns, 1, i - 1)
                        \o SubSeq(predictRuns, i + 1, Len(predictRuns))

\* the finally block, hideLoading(), ends run i
Finally(i) ==
    /\ loadingHidden' = TRUE
    /\ predictBtnDisabled' = FALSE
    /\ predictRuns' = SubSeq(predictRuns, 1, i - 1)
                        \o SubSeq(predictRuns, i + 1, Len(predictRuns))

\* variant: showLoading() shows the spinner but leaves the button enabled
PredictClick_triggerStaysEnabled ==
    /\ ~predictBtnDisabled
    /\ Len(predictRuns) < MaxRuns
    /\ LET lat == parseFloat(latitudeInput)
           lon == parseFloat(longitudeInput)
           startDate == "2020-02-02"
           endDate == endDateInput
           discomfortThreshold == ThresholdOf(discomfortThresholdInput)
       IN  IF isNaN(lat) \/ isNaN(lon) \/ startDate = "" \/ endDate = ""
           THEN /\ messageText' = "Select location and enter both start and end date."
                /\ messageHidden' = FALSE
                /\ UNCHANGED <<resultVars, loadingVars, predictRuns>>
           ELSE \* showLoading(), then fetch("/api/app", ...)
                /\ loadingHidden' = FALSE
                /\ resultsHidden' = TRUE
                /\ predictBtnDisabled' = FALSE
                /\ predictRuns' = Append(predictRuns,
                        [pc |-> "fetch", startDate |-> startDate,
                         body |-> [latitude |-> lat, longitude |-> lon,
                                   startDate |-> startDate, endDate |-> endDate,
                                   discomfortThreshold |-> discomfortThreshold]])
                /\ UNCHANGED <<lastLikelihoods, lastData, chartInstance,
                               insightsBtnHidden, resultsContent, messageVars>>
    /\ UNCHANGED <<engineVars, inputVars, historyVars>>
    /\ UNCHANGED insightVars
    /\ UNCHANGED <<bandVars, componentVars>>

\* variant: the validation tests the coordinates and the start date only
PredictClick_endDateUnchecked ==
    /\ ~predictBtnDisabled
    /\ Len(predictRuns) < MaxRuns
    /\ LET lat == parseFloat(latitudeInput)
           lon == parseFloat(longitudeInput)
           startDate == "2020-02-02"
           endDate == endDateInput
           discomfortThreshold == ThresholdOf(discomfortThresholdInput)
       IN  IF isNaN(lat) \/ isNaN(lon) \/ startDate = ""
           THEN /\ messageText' = "Select location and enter both start and end date."
                /\ messageHidden' = FALSE
                /\ UNCHANGED <<resultVars, loadingVars, predictRuns>>
           ELSE \* showLoading(), then fetch("/api/app", ...)
                /\ loadingHidden' = FALSE
                /\ resultsHidden' = TRUE
                /\ predictBtnDisabled' = TRUE
                /\ predictRuns' = Append(predictRuns,
                        [pc |-> "fetch", startDate |-> startDate,
                         body |-> [latitude |-> lat, longitude |-> lon,
                                   startDate |-> startDate, endDate |-> endDate,
                                   discomfortThreshold |-> discomfortThreshold]])
                /\ UNCHANGED <<lastLikelihoods, lastData, chartInstance,
                               insightsBtnHidden, resultsContent, messageVars>>
    /\ UNCHANGED <<engineVars, inputVars, historyVars>>
    /\ UNCHANGED insightVars
    /\ UNCHANGED <<bandVars, componentVars>>

\* the click listener up to its first await
PredictClick ==
    /\ ~predictBtnDisabled
    /\ Len(predictRuns) < MaxRuns
    /\ LET lat == parseFloat(latitudeInput)
           lon == parseFloat(longitudeInput)
           startDate == "2020-02-02"
           endDate == endDateInput
           discomfortThreshold == ThresholdOf(discomfortThresholdInput)
       IN  IF isNaN(lat) \/ isNaN(lon) \/ startDate = "" \/ endDate = ""
           THEN /\ messageText' = "Select location and enter both start and end date."
                /\ messageHidden' = FALSE
                /\ UNCHANGED <<resultVars, loadingVars, predictRuns>>
           ELSE \* showLoading(), then fetch("/api/app", ...)
                /\ loadingHidden' = FALSE
                /\ resultsHidden' = TRUE
                /\ predictBtnDisabled' = TRUE
                /\ predictRuns' = Append(predictRuns,
                        [pc |-> "fetch", startDate |-> startDate,
                         body |-> [latitude |-> lat, longitude |-> lon,
                                   startDate |-> startDate, endDate |-> endDate,
                                   discomfortThreshold |-> discomfortThreshold]])
                /\ UNCHANGED <<lastLikelihoods, lastData, chartInstance,
                               insightsBtnHidden, resultsContent, messageVars>>
    /\ UNCHANGED <<engineVars, inputVars, historyVars>>
    /\ UNCHANGED insightVars
    /\ UNCHANGED <<bandVars, componentVars>>

\* fetch("/api/app") settles for run i
FetchSettles(i, outcome) ==
    /\ i \in 1..Len(predictRuns)
    /\ predictRuns[i].pc = "fetch"
    /\ IF outcome = "ok"
       THEN \* await response.json()
            /\ predictRuns' = [predictRuns EXCEPT ![i].pc = "json"]
            /\ UNCHANGED <<resultVars, loadingVars, messageVars, historyVars>>
       ELSE \* fetch rejected, or !response.ok throws
            /\ Catch(predictRuns[i])
            /\ Logged({[params |-> fallback, result |-> lastLikelihoods']})
            /\ Noted(predictRuns[i], fallback)
            /\ lastOutcome' = outcome
            /\ Finally(i)
            /\ UNCHANGED chartInstance
    /\ UNCHANGED <<engineVars, inputVars>>
    /\ UNCHANGED insightVars
    /\ UNCHANGED <<bandVars, componentVars>>

\* response.json() settles for run i and the rest of the handler runs
JsonSettles(i, data) ==
    /\ i \in 1..Len(predictRuns)
    /\ predictRuns[i].pc = "json"
    /\ LET run == predictRuns[i]
           rwp == data.realWeatherParams
       IN  IF BodyUnusable(data)
           THEN /\ Catch(run)
                /\ Logged({[params |-> fallback, result |-> lastLikelihoods']})
                /\ Noted(run, fallback)
                /\ lastOutcome' = BodyKind(data)
                /\ UNCHANGED chartInstance
           ELSE \E chart \in ChartOutcomes :
                IF chart = "throws"
                THEN \* lastLikelihoods and lastData were assigned and the
                     \* old chart destroyed, then new Chart(...) throws into
                     \* the catch block
                     /\ Catch(run)
                     /\ Logged({[params |-> rwp,
                                 result |-> likelihoodsOf[rwp]],
                                [params |-> fallback,
                                 result |-> lastLikelihoods']})
                     /\ Noted(run, fallback)
                     /\ lastOutcome' = "chartThrew"
                     /\ chartInstance' = IF chartInstance = "null" THEN "null"
                                         ELSE "destroyed"
                ELSE /\ lastLikelihoods' = likelihoodsOf[rwp]
                     /\ showResults
                     /\ lastData' =
                          IF data.hasSeries
                          THEN [isNull |-> FALSE, dates |-> SeriesDates,
                                temp |-> SeriesTemp, wind |-> SeriesWind,
                                precip |-> SeriesPrecip]
                          ELSE [isNull |-> FALSE, dates |-> <<run.startDate>>,
                                temp |-> <<rwp.tempMax>>,
                                wind |-> <<rwp.windMax>>,
                                precip |-> <<rwp.precipitationSum>>]
                     /\ chartInstance' = IF chart = "drawn" THEN "live"
                                         ELSE chartInstance
                     /\ Logged({[params |-> rwp, result |-> lastLikelihoods']})
                     /\ Noted(run, rwp)
                     /\ lastOutcome' = BodyKind(data)
                     /\ UNCHANGED messageVars
    /\ Finally(i)
    /\ UNCHANGED <<engineVars, inputVars>>
    /\ UNCHANGED insightVars
    /\ UNCHANGED <<bandVars, componentVars>>

(* insight button *)

\* what res.json() of /api/gemini settles with: a rejection (malformed body),
\* null, or an object whose text is a sentence or is empty or missing
InsightBodies ==
    { [kind |-> "malformed", text |-> ""],
      [kind |-> "null", text |-> ""],
      [kind |-> "object", text |-> "Pack an umbrella."],
      [kind |-> "object", text |-> ""] }

\* a limit on the insight handler runs suspended at one time
MaxInsightRuns == 2

\* run i of the insight handler returns
InsightReturns(i) ==
    insightRuns' = SubSeq(insightRuns, 1, i - 1)
                     \o SubSeq(insightRuns, i + 1, Len(insightRuns))

\* variant: the catch block logs the error and leaves the text as it is
InsightCatch_logsOnly ==
    UNCHANGED geminiText

\* the catch block
InsightCatch ==
    geminiText' = "Error fetching Gemini insights."

\* variant: the guard on lastLikelihoods is left out
InsightClick_unguarded ==
    /\ Len(insightRuns) < MaxInsightRuns
    /\ LET lat == latitudeInput
           lon == longitudeInput
           startDate == "2020-02-02"
           endDate == endDateInput
           discomfortThreshold == ThresholdOf(discomfortThresholdInput)
           locationName == lat \o ", " \o lon
       IN  /\ geminiText' = "Generating insights..."
           /\ geminiInsightsDivHidden' = FALSE
           /\ insightRuns' = Append(insightRuns,
                   [pc |-> "fetch",
                    body |-> [likelihoods |-> lastLikelihoods,
                              location |-> locationName,
                              startDate |-> startDate, endDate |-> endDate,
                              discomfortThreshold |-> discomfortThreshold]])
           /\ UNCHANGED messageVars
    /\ UNCHANGED <<engineVars, inputVars, resultVars, loadingVars, historyVars,
                   predictRuns>>
    /\ UNCHANGED <<bandVars, componentVars>>

\* the click listener up to its first await; it runs on every click event,
\* also one dispatched while the button still carries the class hidden
InsightClick ==
    /\ Len(insightRuns) < MaxInsightRuns
    /\ IF lastLikelihoods = EmptyObject
       THEN \* Object.keys(lastLikelihoods).length === 0
            /\ messageText' = "Get weather likelihoods first."
            /\ messageHidden' = FALSE
            /\ UNCHANGED insightVars
       ELSE LET lat == latitudeInput
                lon == longitudeInput
                startDate == "2020-02-02"
                endDate == endDateInput
                discomfortThreshold == ThresholdOf(discomfortThresholdInput)
                locationName == lat \o ", " \o lon
            IN  /\ geminiText' = "Generating insights..."
                /\ geminiInsightsDivHidden' = FALSE
                /\ insightRuns' = Append(insightRuns,
                        [pc |-> "fetch",
                         body |-> [likelihoods |-> lastLikelihoods,
                                   location |-> locationName,
                                   startDate |-> startDate, endDate |-> endDate,
                                   discomfortThreshold |-> discomfortThreshold]])
                /\ UNCHANGED messageVars
    /\ UNCHANGED <<engineVars, inputVars, resultVars, loadingVars, historyVars,
                   predictRuns>>
    /\ UNCHANGED <<bandVars, componentVars>>

\* fetch("/api/gemini") settles for run i
InsightFetchSettles(i, outcome) ==
    /\ i \in 1..Len(insightRuns)
    /\ insightRuns[i].pc = "fetch"
    /\ IF outcome = "ok"
       THEN \* await res.json()
            /\ insightRuns' = [insightRuns EXCEPT ![i].pc = "json"]
            /\ UNCHANGED <<geminiText, geminiInsightsDivHidden>>
       ELSE \* fetch rejected, or !res.ok throws
            /\ InsightCatch
            /\ InsightReturns(i)
            /\ UNCHANGED geminiInsightsDivHidden
    /\ UNCHANGED <<engineVars, inputVars, resultVars, loadingVars, messageVars,
                   historyVars, predictRuns>>
    /\ UNCHANGED <<bandVars, componentVars>>

\* res.json() settles for run i and the rest of the handler runs
InsightJsonSettles(i, result) ==
    /\ i \in 1..Len(insightRuns)
    /\ insightRuns[i].pc = "json"
    /\ IF result.kind # "object"
       THEN \* res.json() rejects, or result.text throws on null
            InsightCatch
       ELSE geminiText' = IF result.text # "" THEN result.text
                          ELSE "Couldn't generate insights at this time."
    /\ InsightReturns(i)
    /\ UNCHANGED <<engineVars, inputVars, resultVars, loadingVars, messageVars,
                   historyVars, predictRuns, geminiInsightsDivHidden>>
    /\ UNCHANGED <<bandVars, componentVars>>

Next ==
    \/ \E v \in LatitudeStrings : EditLatitude(v)
    \/ \E v \in LongitudeStrings : EditLongitude(v)
    \/ \E v \in EndDateStrings : EditEndDate(v)
    \/ \E v \in ThresholdStrings : EditThreshold(v)
    \/ \E pt \in MapPoints : MapClick(pt)
    \/ MessageTimeout
    \/ PredictClick
    \/ \E i \in 1..MaxRuns, outcome \in FetchOutcomes : FetchSettles(i, outcome)
    \/ \E i \in 1..MaxRuns, data \in ResponseBodies : JsonSettles(i, data)

Spec == Init /\ [][Next]_vars

\* the page with both buttons in use, the form filled in from the map
InsightNext ==
    \/ \E pt \in MapPoints : MapClick(pt)
    \/ \E v \in EndDateStrings \ {""} : EditEndDate(v)
    \/ PredictClick
    \/ \E i \in 1..MaxRuns, outcome \in FetchOutcomes : FetchSettles(i, outcome)
    \/ \E i \in 1..MaxRuns, data \in ResponseBodies : JsonSettles(i, data)
    \/ InsightClick
    \/ \E i \in 1..MaxInsightRuns, outcome \in FetchOutcomes :
          InsightFetchSettles(i, outcome)
    \/ \E i \in 1..MaxInsightRuns, result \in InsightBodies :
          InsightJsonSettles(i, result)

InsightSpec == Init /\ [][InsightNext]_vars

\* end dates typed before and after a predict click
InsightEndDates == (EndDateStrings \ {""}) \cup {"2025-10-12"}

\* the form edited between predict clicks and insight clicks, the insight
\* requests left pending
InsightFormNext ==
    \/ \E pt \in MapPoints : MapClick(pt)
    \/ \E v \in InsightEndDates : EditEndDate(v)
    \/ PredictClick
    \/ \E i \in 1..MaxRuns, outcome \in FetchOutcomes : FetchSettles(i, outcome)
    \/ \E i \in 1..MaxRuns, data \in ResponseBodies : JsonSettles(i, data)
    \/ InsightClick

InsightFormSpec == Init /\ [][InsightFormNext]_vars

\* the predict button on a form filled in from the map, with every pending
\* fetch("/api/app") and response.json() settling in the end
PredictLiveNext ==
    \/ \E pt \in MapPoints : MapClick(pt)
    \/ \E v \in EndDateStrings : EditEndDate(v)
    \/ \E v \in ThresholdStrings : EditThreshold(v)
    \/ PredictClick
    \/ \E i \in 1..MaxRuns, outcome \in FetchOutcomes : FetchSettles(i, outcome)
    \/ \E i \in 1..MaxRuns, data \in ResponseBodies : JsonSettles(i, data)

PredictLiveSpec ==
    /\ Init
    /\ [][PredictLiveNext]_vars
    /\ WF_vars(\E i \in 1..MaxRuns, outcome \in FetchOutcomes :
                  FetchSettles(i, outcome))
    /\ WF_vars(\E i \in 1..MaxRuns, data \in ResponseBodies :
                  JsonSettles(i, data))

----------------------------------------------------------------------------
(* The calculator applied to one argument *)

TempMaxInputs == {-200, -22, 0, 1, 58, 130, 169, 350, 400, 500}
TempMinInputs == {-200, -100, -99, 61, 89, 99, 100, 101, 400}
WindMaxInputs == {-50, 0, 1, 107, 299, 300, 450}
PrecipitationInputs == {-10, 0, 245, 500, 800}
HumidityInputs == {-180, 0, 500, 621, 775, 1000, 1100}

Degenerate == {NaN, undefined}
JsInputs(S) == {Tenths(t) : t \in S} \cup Degenerate

EngineInit ==
    /\ PageInit
    /\ params \in [tempMax : JsInputs(TempMaxInputs),
                   tempMin : JsInputs(TempMinInputs),
                   windMax : JsInputs(WindMaxInputs),
                   precipitationSum : JsInputs(PrecipitationInputs),
                   avgHumidity : JsInputs(HumidityInputs)]
    /\ scores = EmptyObject
    /\ otherParams = NoParams
    /\ otherScores = EmptyObject
    /\ enginePc = "ready"
    /\ BandIdle
    /\ ComponentMounted

EngineCall ==
    /\ enginePc = "ready"
    /\ scores' = calculateLikelihoods(params)
    /\ enginePc' = "done"
    /\ UNCHANGED <<params, otherParams, otherScores, inputVars, resultVars,
                   loadingVars, messageVars, historyVars, predictRuns>>
    /\ UNCHANGED insightVars
    /\ UNCHANGED <<bandVars, componentVars>>

EngineNext == EngineCall

EngineSpec == EngineInit /\ [][EngineNext]_vars

(* calculateLikelihoods called on two records that differ in one field *)

\* inputs in tenths, around the ends of each ramp and the 14.5 of the
\* discomfort index
MonoTempMax == {-22, 14, 58, 130, 144, 145, 146, 169, 270, 340, 345, 350, 410}
MonoTempMin == {-100, -99, 61, 89, 99, 100, 101, 201, 400}
MonoWindMax == {0, 1, 107, 299, 300, 450}
MonoPrecipitation == {0, 20, 25, 245, 500, 800}
MonoHumidity == {-1000, 0, 500, 621, 775, 1000}

\* the fallback record with one or two fields replaced
With(field, t) == [fallback EXCEPT ![field] = Tenths(t)]
WithBoth(tMax, h) ==
    [fallback EXCEPT !.tempMax = Tenths(tMax), !.avgHumidity = Tenths(h)]

\* the pairs of records: the second has the larger value in one field
MonoPairs ==
    { <<WithBoth(a, h), WithBoth(b, h)>> :
          a \in MonoTempMax, b \in MonoTempMax, h \in MonoHumidity }
    \cup { <<WithBoth(t, a), WithBoth(t, b)>> :
          t \in MonoTempMax, a \in MonoHumidity, b \in MonoHumidity }
    \cup { <<With("tempMin", a), With("tempMin", b)>> :
          a \in MonoTempMin, b \in MonoTempMin }
    \cup { <<With("windMax", a), With("windMax", b)>> :
          a \in MonoWindMax, b \in MonoWindMax }
    \cup { <<With("precipitationSum", a), With("precipitationSum", b)>> :
          a \in MonoPrecipitation, b \in MonoPrecipitation }

MonoInit ==
    /\ PageInit
    /\ \E pair \in MonoPairs :
          /\ params = pair[1]
          /\ otherParams = pair[2]
    /\ scores = EmptyObject
    /\ otherScores = EmptyObject
    /\ enginePc = "ready"
    /\ BandIdle
    /\ ComponentMounted

MonoCall ==
    /\ enginePc = "ready"
    /\ scores' = calculateLikelihoods(params)
    /\ otherScores' = calculateLikelihoods(otherParams)
    /\ enginePc' = "done"
    /\ UNCHANGED <<params, otherParams, inputVars, resultVars, loadingVars,
                   messageVars, historyVars, predictRuns>>
    /\ UNCHANGED insightVars
    /\ UNCHANGED <<bandVars, componentVars>>

MonoNext == MonoCall

MonoSpec == MonoInit /\ [][MonoNext]_vars

----------------------------------------------------------------------------
(* getProgressBarColorClass applied to one argument *)

\* the largest percentage a progress bar is asked to show
MaxProbability == 100

\* what showResults passes on: data[c.key] || 0
BarInputs ==
    {Probability(v) : v \in {Whole(n) : n \in 0..MaxProbability} \cup Degenerate}

BandInit ==
    /\ PageInit
    /\ params = NoParams
    /\ scores = EmptyObject
    /\ otherParams = NoParams
    /\ otherScores = EmptyObject
    /\ enginePc = "off"
    /\ barProbability \in BarInputs
    /\ progressColor = ""
    /\ ComponentMounted

BandCall ==
    /\ progressColor = ""
    /\ progressColor' = getProgressBarColorClass(barProbability)
    /\ UNCHANGED <<barProbability, engineVars, pageVars, componentVars>>

BandNext == BandCall

BandSpec == BandInit /\ [][BandNext]_vars

----------------------------------------------------------------------------
(* The component in use *)

MapNext ==
    \/ ActionButton
    \/ \E val \in InputLatStrings \cup {DEFAULT_LAT} : handleLatChange(val)
    \/ \E val \in InputLonStrings \cup {DEFAULT_LON} : handleLonChange(val)
    \/ \E v \in DateStrings \cup {INITIAL_DATE} : setDate(v)
    \/ \E v \in ThresholdValues : setDiscomfortThreshold(v)
    \/ \E v \in OptionValues : setDiscomfortOption(v)
    \/ MessageCleared
    \/ \E i \in 1..MaxFetchRuns, outcome \in OpenMeteoOutcomes :
          OpenMeteoFetchSettles(i, outcome)
    \/ \E i \in 1..MaxFetchRuns, data \in OpenMeteoBodies :
          OpenMeteoJsonSettles(i, data)

MapSpec == Init /\ [][MapNext]_vars

----------------------------------------------------------------------------
(* Properties of the calculator *)

Finite(v) == v.k = "num"
AllFinite(p) ==
    /\ Finite(p.tempMax) /\ Finite(p.tempMin) /\ Finite(p.windMax)
    /\ Finite(p.precipitationSum) /\ Finite(p.avgHumidity)
ScoreInRange(v) == v.k = "num" /\ v.d = 1 /\ v.n >= MIN_PERCENT /\ v.n <= 100
ValidResult(r) ==
    /\ ScoreInRange(r.veryHot) /\ ScoreInRange(r.veryCold)
    /\ ScoreInRange(r.veryWindy) /\ ScoreInRange(r.veryWet)
    /\ ScoreInRange(r.veryUncomfortable)

AtLeast(v, w) == ~Less(v, w)
AtMost(v, w) == ~Less(w, v)
Done == enginePc = "done"

\* C1: for finite inputs every returned score is an integer in [5, 100]
C1_ScoresInRange ==
    (Done /\ AllFinite(params)) => ValidResult(scores)

C1_Witness ==
    /\ Done /\ AllFinite(params)
    /\ params.tempMax = Tenths(-200) /\ params.windMax = Tenths(450)
    /\ params.avgHumidity = Tenths(-180)
    /\ scores.veryHot = Whole(5) /\ scores.veryWindy = Whole(100)

\* C3 (as claimed): when some input is NaN or undefined, every returned score
\* is still an integer in [5, 100]
C3_DegenerateClamped ==
    (Done /\ ~AllFinite(params)) => ValidResult(scores)

Scenario2 ==
    [tempMax |-> Tenths(400), tempMin |-> Tenths(100), windMax |-> Tenths(300),
     precipitationSum |-> Tenths(500), avgHumidity |-> Tenths(1000)]

\* C4 (as claimed): scenario 2 yields 100 for all five scores
C4_AllHundred ==
    (Done /\ params = Scenario2) =>
        /\ scores.veryHot = Whole(100) /\ scores.veryCold = Whole(100)
        /\ scores.veryWindy = Whole(100) /\ scores.veryWet = Whole(100)
        /\ scores.veryUncomfortable = Whole(100)

\* C4 (amended): scenario 2 yields 100 for veryHot, veryWindy, veryWet and
\* veryUncomfortable, and the floor 5 for veryCold
C4_Scenario2 ==
    (Done /\ params = Scenario2) =>
        /\ scores.veryHot = Whole(100) /\ scores.veryCold = Whole(5)
        /\ scores.veryWindy = Whole(100) /\ scores.veryWet = Whole(100)
        /\ scores.veryUncomfortable = Whole(100)

C4_Witness == Done /\ params = Scenario2 /\ scores.veryCold = Whole(5)

\* C5: tempMin >= 10 gives veryCold = 5 and tempMin <= -10 gives veryCold = 100,
\* whatever the other four fields are
C5_ColdSaturation ==
    (Done /\ Finite(params.tempMin)) =>
        /\ AtLeast(params.tempMin, Whole(10)) => scores.veryCold = Whole(5)
        /\ AtMost(params.tempMin, Whole(-10)) => scores.veryCold = Whole(100)

C5_Witness ==
    /\ Done /\ params.tempMin = Tenths(-100) /\ scores.veryCold = Whole(100)
    /\ params.tempMax = NaN /\ params.windMax = Tenths(450)

\* C6: tempMax >= 40 gives veryHot = 100 and tempMax <= 0 gives veryHot = 5,
\* never a negative or zero score
C6_HotSaturation ==
    (Done /\ Finite(params.tempMax)) =>
        /\ AtLeast(params.tempMax, Whole(40)) => scores.veryHot = Whole(100)
        /\ AtMost(params.tempMax, Whole(0)) => scores.veryHot = Whole(5)

C6_Witness ==
    /\ Done /\ params.tempMax = Tenths(-200) /\ scores.veryHot = Whole(5)
    /\ params.tempMin = undefined

\* C7: veryWindy is 100 for windMax >= 30 and 5 for windMax = 0; veryWet is 100
\* for precipitationSum >= 50 and 5 for precipitationSum = 0, whatever the
\* other fields are
C7_WindWetSaturation ==
    /\ (Done /\ Finite(params.windMax)) =>
          /\ AtLeast(params.windMax, Whole(30)) => scores.veryWindy = Whole(100)
          /\ params.windMax = Tenths(0) => scores.veryWindy = Whole(5)
    /\ (Done /\ Finite(params.precipitationSum)) =>
          /\ AtLeast(params.precipitationSum, Whole(50)) =>
                scores.veryWet = Whole(100)
          /\ params.precipitationSum = Tenths(0) => scores.veryWet = Whole(5)

C7_Witness ==
    /\ Done /\ params.windMax = Tenths(300) /\ scores.veryWindy = Whole(100)
    /\ params.precipitationSum = Tenths(0) /\ scores.veryWet = Whole(5)
    /\ params.tempMax = NaN

\* C8: at avgHumidity = 100 veryUncomfortable is max(5, round(min(100,
\* tempMax / 35 * 100))): 100 for tempMax >= 35 and 5 for tempMax <= 0
C8_NoHumidityCorrection ==
    (Done /\ Finite(params.tempMax) /\ params.avgHumidity = Tenths(1000)) =>
        /\ scores.veryUncomfortable =
              MathMax(Whole(5), MathRound(MathMin(Whole(100),
                  Mul(Div(params.tempMax, Whole(35)), Whole(100)))))
        /\ AtLeast(params.tempMax, Whole(35)) =>
              scores.veryUncomfortable = Whole(100)
        /\ AtMost(params.tempMax, Whole(0)) =>
              scores.veryUncomfortable = Whole(5)

C8_Witness ==
    /\ Done /\ params.avgHumidity = Tenths(1000)
    /\ params.tempMax = Tenths(169) /\ scores.veryUncomfortable = Whole(48)

ReferenceSample ==
    [tempMax |-> Tenths(169), tempMin |-> Tenths(61), windMax |-> Tenths(107),
     precipitationSum |-> Tenths(245), avgHumidity |-> Tenths(621)]

\* C9: the reference sample, which is the handler's fallback record, scores
\* veryHot 42, veryCold 20, veryWindy 36, veryWet 49, veryUncomfortable 47
C9_ReferenceSample ==
    (Done /\ params = ReferenceSample) =>
        /\ fallback = ReferenceSample
        /\ scores = [veryHot |-> Whole(42), veryCold |-> Whole(20),
                     veryWindy |-> Whole(36), veryWet |-> Whole(49),
                     veryUncomfortable |-> Whole(47)]

C9_Witness == Done /\ params = fallback /\ scores.veryCold = Whole(20)

----------------------------------------------------------------------------
(* Properties of the predict handler *)

ForecastFailures == {"reject", "notok", "malformed", "null", "noParams"}
Idle == predictRuns = <<>>

\* C2: after a predict run whose forecast call failed, lastLikelihoods is the
\* calculator's result for the fallback record, five integers in [5, 100],
\* it is what showResults rendered, and the handler has run to its end
C2_FallbackResult ==
    (lastOutcome \in ForecastFailures) =>
        /\ ValidResult(lastLikelihoods)
        /\ [params |-> fallback, result |-> lastLikelihoods] \in engineLog
        /\ resultsContent = lastLikelihoods
        /\ Idle => (~resultsHidden /\ loadingHidden /\ ~predictBtnDisabled)

C2_Witness ==
    /\ lastOutcome = "noParams" /\ Idle
    /\ \E e \in engineLog : e.params # fallback
    /\ lastLikelihoods.veryWet = Whole(49)

\* C10: whenever the same metrics record reached the calculator in two
\* predict runs, the same scores were stored in lastLikelihoods, whatever was
\* computed in between
C10_Deterministic ==
    \A a \in engineLog : \A b \in engineLog :
        a.params = b.params => a.result = b.result

C10_Witness ==
    /\ repeated /\ Cardinality(engineLog) >= 3
    /\ lastOutcome = "chartThrew"

C12_ThresholdInfluences ==
    [][(/\ lastScoring'.params = lastScoring.params
        /\ lastScoring'.params = ReferenceSample
        /\ lastScoring.discomfortThreshold.k = "num"
        /\ lastScoring'.discomfortThreshold # lastScoring.discomfortThreshold)
       => lastLikelihoods'.veryUncomfortable
            # lastLikelihoods.veryUncomfortable]_vars

\* C13 (as claimed): a response whose realWeatherParams lacks a metric field
\* counts as a failed forecast: no incomplete record reaches the calculator,
\* and what a finished run stored and rendered is five integers in [5, 100]
C13_IncompleteIsFailure ==
    /\ \A e \in engineLog : AllFinite(e.params)
    /\ (lastOutcome # "none" /\ Idle) =>
          /\ ValidResult(lastLikelihoods)
          /\ ValidResult(resultsContent)

\* C14: at most one predict run is suspended on /api/app at any time, the
\* predict button is disabled and the spinner shown for as long as it is, and
\* lastLikelihoods does not change while a run stays suspended
C14_SinglePredictInFlight ==
    /\ [](/\ Len(predictRuns) <= 1
          /\ predictRuns # <<>> => (predictBtnDisabled /\ ~loadingHidden))
    /\ [][(predictRuns # <<>> /\ predictRuns' # <<>>)
            => lastLikelihoods' = lastLikelihoods]_vars

C14_Witness ==
    /\ Len(predictRuns) = 1 /\ predictRuns[1].pc = "json"
    /\ predictBtnDisabled
    /\ lastOutcome = "ok" /\ ValidResult(lastLikelihoods)

\* the form as a predict click would reject it
InvalidForm ==
    \/ isNaN(parseFloat(latitudeInput))
    \/ isNaN(parseFloat(longitudeInput))
    \/ endDateInput = ""

\* C18: a predict click on a form without a numeric latitude and longitude or
\* without an end date starts no run, so no request is sent and the calculator
\* is not called; lastLikelihoods, lastData, the rendered results and the
\* history of calculator calls stay as they were, the button stays enabled and
\* the spinner hidden, and the validation message is shown
C18_ValidationRejects ==
    [][(PredictClick /\ InvalidForm) =>
          /\ predictRuns' = predictRuns
          /\ UNCHANGED <<resultVars, engineLog, lastScoring, lastOutcome>>
          /\ ~predictBtnDisabled' /\ loadingHidden'
          /\ messageText' = "Select location and enter both start and end date."
          /\ ~messageHidden']_vars

C18_Witness ==
    /\ messageText = "Select location and enter both start and end date."
    /\ ~messageHidden
    /\ latitudeInput # "" /\ longitudeInput # "" /\ endDateInput = ""
    /\ predictRuns = <<>> /\ ~predictBtnDisabled
    /\ lastOutcome = "ok" /\ ~resultsHidden

----------------------------------------------------------------------------
(* Properties of the insight handler *)

\* C15 (as claimed): at most one /api/gemini request is unresolved at any time
C15_SingleInsightInFlight ==
    Cardinality({i \in 1..Len(insightRuns) : insightRuns[i].pc = "fetch"}) <= 1

\* C16: every /api/gemini request carries a result that a predict run stored
\* in lastLikelihoods, never the empty object, and an insight click made while
\* lastLikelihoods is still empty sends nothing, leaves the insight text alone
\* and shows 'Get weather likelihoods first.'
C16_InsightAfterScores ==
    /\ [](\A i \in 1..Len(insightRuns) :
            /\ insightRuns[i].body.likelihoods # EmptyObject
            /\ \E e \in engineLog :
                  e.result = insightRuns[i].body.likelihoods)
    /\ [][(InsightClick /\ lastLikelihoods = EmptyObject)
            => (/\ UNCHANGED insightVars
                /\ messageText' = "Get weather likelihoods first."
                /\ ~messageHidden')]_vars

C16_Witness ==
    /\ Len(insightRuns) = 1 /\ insightRuns[1].pc = "fetch"
    /\ insightRuns[1].body.likelihoods = lastLikelihoods
    /\ geminiText = "Generating insights..."
    /\ messageText = "Get weather likelihoods first."

\* C17: when fetch("/api/gemini") rejects or answers with a status that is not
\* ok, the run ends with 'Error fetching Gemini insights.' as the insight text,
\* no request is issued in its place, and lastLikelihoods, the rendered scores
\* and the predict button are as they were
C17_InsightFailure ==
    [][\A i \in 1..MaxInsightRuns : \A outcome \in {"reject", "notok"} :
          InsightFetchSettles(i, outcome) =>
              /\ geminiText' = "Error fetching Gemini insights."
              /\ Len(insightRuns') = Len(insightRuns) - 1
              /\ \A j \in 1..Len(insightRuns') :
                    \E k \in 1..Len(insightRuns) :
                        k # i /\ insightRuns'[j] = insightRuns[k]
              /\ UNCHANGED <<resultVars, loadingVars, predictRuns>>]_vars

C17_Witness ==
    /\ geminiText = "Error fetching Gemini insights."
    /\ insightRuns = <<>>
    /\ ~geminiInsightsDivHidden
    /\ ValidResult(lastLikelihoods)

----------------------------------------------------------------------------
(* Properties of the progress bar colours *)

Severe == "bg-gradient-to-r from-red-500 to-pink-500"
Elevated == "bg-gradient-to-r from-yellow-400 to-orange-400"
Moderate == "bg-gradient-to-r from-green-400 to-lime-400"
Low == "bg-gradient-to-r from-blue-400 to-sky-400"

\* C19: for every integer score from 5 to 100 the class returned is one of
\* the four bands: severe exactly from 75 up, elevated exactly from 50 to 74,
\* moderate exactly from 25 to 49, and low exactly under 25
C19_SeverityBands ==
    (/\ progressColor # ""
     /\ barProbability.k = "num" /\ barProbability.d = 1
     /\ barProbability.n >= MIN_PERCENT /\ barProbability.n <= 100) =>
        LET n == barProbability.n
        IN  /\ progressColor \in {Severe, Elevated, Moderate, Low}
            /\ progressColor = Severe <=> n >= 75
            /\ progressColor = Elevated <=> (50 <= n /\ n < 75)
            /\ progressColor = Moderate <=> (25 <= n /\ n < 50)
            /\ progressColor = Low <=> n < 25

C19_Witness ==
    /\ barProbability = Whole(75)
    /\ progressColor = Severe

----------------------------------------------------------------------------
(* Properties of MapComponent *)

\* C20 (as claimed): when fetchOpenMeteoMetrics fails for a fetchWeatherData
\* call (fetch rejects, the response is not ok, the body is malformed or has
\* no daily data), the call still leaves a likelihood result in results
C20_MapFallback ==
    [][\A i \in 1..MaxFetchRuns :
          (\/ \E outcome \in {"reject", "notok"} :
                 OpenMeteoFetchSettles(i, outcome)
           \/ \E data \in OpenMeteoBodies :
                 data.kind # "daily" /\ OpenMeteoJsonSettles(i, data))
          => ~results'.isNull]_vars

----------------------------------------------------------------------------
(* Further properties of the predict handler *)

\* C21: whenever a predict run is under way (the button disabled, the spinner
\* shown), the page eventually has no run left, the button enabled and the
\* spinner hidden, given that fetch and response.json() settle
C21_PredictTerminates ==
    (predictRuns # <<>> /\ predictBtnDisabled /\ ~loadingHidden)
        ~> (predictRuns = <<>> /\ ~predictBtnDisabled /\ loadingHidden)

C21_Witness ==
    /\ lastOutcome = "chartThrew"
    /\ predictRuns = <<>> /\ ~predictBtnDisabled /\ loadingHidden
    /\ \E e \in engineLog : e.params \in ResponseParams
    /\ \E e \in engineLog : e.params = fallback /\ e.result = lastLikelihoods


\* C22: when response.json() settles with a complete realWeatherParams record
\* (the response was ok), the handler leaves in lastLikelihoods the Engine's
\* result for that record and not the result for the fallback record,
\* whatever happens while the chart is drawn
C22_FallbackOnlyOnFailure ==
    [][\A i \in 1..MaxRuns : \A data \in ResponseBodies :
          (/\ data.hasParams
           /\ AllFinite(data.realWeatherParams)
           /\ JsonSettles(i, data))
          => (/\ lastLikelihoods' = calculateLikelihoods(data.realWeatherParams)
              /\ lastLikelihoods' # calculateLikelihoods(fallback))]_vars

----------------------------------------------------------------------------
(* Further properties of the insight handler *)

\* C23: the body of every insight request pairs lastLikelihoods with the
\* location and end date of the predict run that stored them: its endDate is
\* that run's endDate and its location names that run's latitude and longitude
C23_InsightSelfConsistent ==
    [][(InsightClick /\ Len(insightRuns') > Len(insightRuns))
       => LET body == insightRuns'[Len(insightRuns')].body
          IN  /\ body.likelihoods = lastLikelihoods
              /\ body.endDate = lastScoring.endDate
              /\ \E la \in LatitudeStrings, lo \in LongitudeStrings :
                    /\ body.location = la \o ", " \o lo
                    /\ parseFloat(la) = lastScoring.latitude
                    /\ parseFloat(lo) = lastScoring.longitude]_vars

----------------------------------------------------------------------------
(* Further properties of MapComponent *)

\* C24: while some fetchWeatherData call is awaiting its fetch, loading is
\* true; and once no call is left, results is what the most recently started
\* call set, never what a call started before it set
C24_LatestRunWins ==
    /\ fetchRuns # <<>> => loading
    /\ fetchRuns = <<>> => resultsByLatest

----------------------------------------------------------------------------
(* Further properties of the calculator *)

InPercent(h) == AtLeast(h, Whole(0)) /\ AtMost(h, Whole(100))

\* C25: of two calls, the one with the larger tempMax has no smaller veryHot,
\* the one with the larger tempMin no larger veryCold, the one with the larger
\* windMax no smaller veryWindy, the one with the larger precipitationSum no
\* smaller veryWet; with the same avgHumidity in [0, 100] the larger tempMax
\* has no smaller veryUncomfortable; with the same tempMax the larger
\* avgHumidity in [0, 100] has no smaller veryUncomfortable above 14.5 and no
\* larger veryUncomfortable below 14.5
C25_Monotone ==
    Done =>
        /\ AtMost(params.tempMax, otherParams.tempMax)
              => scores.veryHot.n <= otherScores.veryHot.n
        /\ AtMost(params.tempMin, otherParams.tempMin)
              => scores.veryCold.n >= otherScores.veryCold.n
        /\ AtMost(params.windMax, otherParams.windMax)
              => scores.veryWindy.n <= otherScores.veryWindy.n
        /\ AtMost(params.precipitationSum, otherParams.precipitationSum)
              => scores.veryWet.n <= otherScores.veryWet.n
        /\ (/\ params.avgHumidity = otherParams.avgHumidity
            /\ InPercent(params.avgHumidity)
            /\ AtMost(params.tempMax, otherParams.tempMax))
              => scores.veryUncomfortable.n <= otherScores.veryUncomfortable.n
        /\ (/\ params.tempMax = otherParams.tempMax
            /\ InPercent(params.avgHumidity)
            /\ InPercent(otherParams.avgHumidity)
            /\ AtMost(params.avgHumidity, otherParams.avgHumidity))
              => /\ Less(Num(145, 10), params.tempMax)
                      => scores.veryUncomfortable.n
                            <= otherScores.veryUncomfortable.n
                 /\ Less(params.tempMax, Num(145, 10))
                      => scores.veryUncomfortable.n
                            >= otherScores.veryUncomfortable.n

\* humid air scores lower than dry air on a cool day and higher on a warm one
C25_Witness ==
    /\ Done
    /\ params.tempMax = otherParams.tempMax
    /\ Less(params.tempMax, Num(145, 10))
    /\ InPercent(params.avgHumidity) /\ InPercent(otherParams.avgHumidity)
    /\ Less(params.avgHumidity, otherParams.avgHumidity)
    /\ scores.veryUncomfortable.n > otherScores.veryUncomfortable.n
    /\ scores.veryUncomfortable.n > MIN_PERCENT

====
